---- MODULE Spec2Model ----
(***************************************************************************)
(* StaticHTMLEnv.Render of env-static-html.go as a state machine: the      *)
(* root build, the expansion walk with its in-place splice, the style      *)
(* output, the memoized conversion conv of the VGNode graph into an        *)
(* html.Node graph, and the final serialization.                           *)
(*                                                                         *)
(* A pointer is a natural number: 0 is nil, i > 0 is the i-th allocated    *)
(* node of the heap (vnodes for *VGNode, onodes for *html.Node).           *)
(***************************************************************************)
EXTENDS Integers, Sequences, FiniteSets, TLC

\* ------------------------------------------------------------------ bounds

\* Component instantiations one Render may start (a self-referential
\* component would otherwise instantiate without end).
MaxExpansions == 4

\* Longest static attribute list of the node whose attributes are varied.
MaxAttrLen == 2

\* Output nodes conv may allocate; never reached by the code as written.
MaxOut == 6 * MaxExpansions + 16

\* ------------------------------------------------------------ value helpers

MinOr0(S) == IF S = {} THEN 0 ELSE CHOOSE x \in S : \A y \in S : x <= y

MaxOr0(S) == IF S = {} THEN 0 ELSE CHOOSE x \in S : \A y \in S : x >= y

Last(s) == s[Len(s)]

Front(s) == SubSeq(s, 1, Len(s) - 1)

\* A property value (interface{}): an int or a string.
IntV(i) == [t |-> "int", i |-> i, s |-> ""]

StrV(s) == [t |-> "str", i |-> 0, s |-> s]

\* fmt.Sprint of a property value.
Sprint(v) == IF v.t = "int" THEN ToString(v.i) ELSE v.s

A(key, val) == [Namespace |-> "", Key |-> key, Val |-> val]

P(key, val) == [Key |-> key, Val |-> val]

\* Props is an ordered map: a sequence of (Key, Val) with distinct keys.
PropKeys(props) == {props[i].Key : i \in 1..Len(props)}

PropGet(props, k) == (CHOOSE i \in 1..Len(props) : props[i].Key = k)

OrderedKeys(props) == [i \in 1..Len(props) |-> props[i].Key]

PropVal(props, k) == props[PropGet(props, k)].Val

\* --------------------------------------------------- component descriptions

\* One node of a builder's result, in document order; par is the index of
\* its parent in the same sequence (0 for the root of the result).
N(type, data, par) ==
  [Type |-> type, Data |-> data, ns |-> "", par |-> par, Attr |-> <<>>, Props |-> <<>>,
   InnerHTML |-> ""]

NS(type, data, ns, par) ==
  [Type |-> type, Data |-> data, ns |-> ns, par |-> par, Attr |-> <<>>, Props |-> <<>>,
   InnerHTML |-> ""]

NA(type, data, par, attr, props) ==
  [Type |-> type, Data |-> data, ns |-> "", par |-> par, Attr |-> attr, Props |-> props,
   InnerHTML |-> ""]

NI(type, data, par, inner) ==
  [Type |-> type, Data |-> data, ns |-> "", par |-> par, Attr |-> <<>>, Props |-> <<>>,
   InnerHTML |-> inner]

TSpan ==
  << NA("element", "span", 0, <<A("id", "s")>>, <<P("id", IntV(42)), P("n", IntV(7))>>),
     N("text", "X", 1) >>

TNestX == << NS("element", "g", "svg", 0), N("element", "x", 1), N("text", "t", 1) >>

TSelfW == << N("element", "div", 0), N("element", "w", 1) >>

TSelfAfterX == << N("element", "div", 0), N("element", "x", 1), N("element", "w", 1) >>

TRootX == << N("element", "x", 0), N("text", "X", 1) >>

TRootW == << N("element", "w", 0), N("text", "X", 1) >>

\* A component type: the tree and style its BuildVDOM yields ("nil": no
\* style node, "empty": a style node without child, else the style text),
\* and where it fails ("new": New(ct, props), "build": BuildVDOM).
Ct(tree, css, fail) == [tree |-> tree, css |-> css, fail |-> fail]

CompTypesW ==
  { Ct(TSpan, "nil", "none"), Ct(TSpan, "b{}", "none"), Ct(TNestX, "c{}", "none"),
    Ct(TSelfW, "nil", "none"), Ct(TRootX, "nil", "none"), Ct(TRootW, "nil", "none"),
    Ct(TSelfAfterX, "nil", "none"), Ct(TSpan, "nil", "new") }

CompTypesX ==
  { Ct(TSpan, "nil", "none"), Ct(TSpan, "d{}", "none"), Ct(TSpan, "empty", "none"),
    Ct(TSelfW, "nil", "none"), Ct(TSpan, "nil", "build") }

\* The registries: every map from a subset of the tags w, x.
Registries ==
  { <<>> } \cup
  { [t \in {"w"} |-> c] : c \in CompTypesW } \cup
  { [t \in {"x"} |-> c] : c \in CompTypesX } \cup
  { [t \in {"w", "x"} |-> IF t = "w" THEN c ELSE d] : c \in CompTypesW, d \in CompTypesX }

RTwoComps == << N("element", "div", 0), N("element", "w", 1), N("element", "x", 1) >>

RWithKids ==
  << N("element", "div", 0), N("element", "w", 1), N("element", "span", 2),
     N("text", "t", 1) >>

RIsComp == << N("element", "w", 0) >>

RInner == << N("element", "div", 0), NI("element", "p", 1, "<b>bold</b>"), N("element", "x", 1) >>

RInnerKids ==
  << NI("element", "div", 0, "<b>bold</b>"), N("element", "w", 1) >>

RInnerBad == << N("element", "div", 0), NI("element", "p", 1, "<!bad") >>

RootTypes ==
  { Ct(t, c, "none") : t \in {RTwoComps, RWithKids, RIsComp}, c \in {"nil", "empty", "a{}"} }
  \cup { Ct(RInner, "a{}", "none"), Ct(RInnerKids, "nil", "none"),
         Ct(RInnerBad, "nil", "none"), Ct(RTwoComps, "a{}", "build") }

\* The attribute lists and property maps of the varied node.
AttrKeys == {"id", "k"}

AttrVals == {"a", "b"}

RECURSIVE AttrSeqs(_)
AttrSeqs(n) ==
  IF n = 0 THEN { <<>> }
  ELSE AttrSeqs(n - 1) \cup
       { Append(s, [Namespace |-> ns, Key |-> k, Val |-> v]) :
           s \in {q \in AttrSeqs(n - 1) : Len(q) = n - 1},
           ns \in {IF n = 1 THEN "svg" ELSE ""}, k \in AttrKeys, v \in AttrVals }

PropSeqs ==
  { <<>>, <<P("id", IntV(42))>>, <<P("p", StrV("q"))>>,
    <<P("id", IntV(42)), P("p", IntV(7))>>, <<P("p", IntV(7)), P("id", StrV("z"))>>,
    <<P("k", StrV("a")), P("id", IntV(7))>> }

RVaried(attr, props) ==
  << N("element", "div", 0), NA("element", "w", 1, attr, props), N("text", "t", 1) >>

\* ------------------------------------------------------------------- state

VARIABLES
  reg,        \* e.reg: tag -> component type
  rootType,   \* e.rootInst.Type
  pc,         \* position in Render
  vnodes,     \* the heap of VGNodes
  vdom,       \* root of the tree being rendered
  css,        \* the root's style node
  err,        \* Render's local err
  cur,        \* the node Walk is at (vgn of the callback)
  walkStack,  \* Walk's pending frames: nodes whose NextSibling is still to walk
  props,      \* props of the callback
  cdom,       \* cdom of the callback
  onodes,     \* the heap of html.Nodes
  ptrMap,     \* ptrMap of Render
  convStack,  \* the activations of conv
  outn,       \* outn of Render
  sink,       \* what was written to e.out
  ret,        \* what Render returned ("none" while it runs)
  walkErr,    \* history: the error the Walk callback returned
  styleLog,   \* history: the style fragments built, in order
  expanded,   \* history: the instantiations, in order
  allocs      \* history: the VGNodes conv allocated an html.Node for, in order

vars ==
  << reg, rootType, pc, vnodes, vdom, css, err, cur, walkStack, props, cdom, onodes,
     ptrMap, convStack, outn, sink, ret, walkErr, styleLog, expanded, allocs >>

\* --------------------------------------------------- BuildVDOM (the builder)

Kids(tree, i) == {j \in 1..Len(tree) : tree[j].par = i}

Sibs(tree, i) == Kids(tree, tree[i].par)

Off(base, i) == IF i = 0 THEN 0 ELSE base + i

\* The VGNodes of a built tree, allocated at base+1 .. base+Len(tree).
BuildNodes(tree, base) ==
  [i \in 1..Len(tree) |->
    [Type |-> tree[i].Type, Data |-> tree[i].Data, Namespace |-> tree[i].ns,
     Attr |-> tree[i].Attr, Props |-> tree[i].Props, InnerHTML |-> tree[i].InnerHTML,
     Parent |-> Off(base, tree[i].par),
     FirstChild |-> Off(base, MinOr0(Kids(tree, i))),
     LastChild |-> Off(base, MaxOr0(Kids(tree, i))),
     PrevSibling |-> Off(base, MaxOr0({j \in Sibs(tree, i) : j < i})),
     NextSibling |-> Off(base, MinOr0({j \in Sibs(tree, i) : j > i}))]]

\* The style node a build yields, as a tree description.
StyleTree(c) ==
  IF c = "nil" THEN <<>>
  ELSE IF c = "empty" THEN << N("element", "style", 0) >>
  ELSE << N("element", "style", 0), N("text", c, 1) >>

\* VGNode.AppendChild(c) on a non-nil receiver n.
AppendChild(nodes, n, c) ==
  LET last == nodes[n].LastChild
      n1 == [nodes EXCEPT ![c].Parent = n, ![c].PrevSibling = last]
      n2 == IF last # 0 THEN [n1 EXCEPT ![last].NextSibling = c]
            ELSE [n1 EXCEPT ![n].FirstChild = c]
  IN  [n2 EXCEPT ![n].LastChild = c]

\* ------------------------------------------------------------------- Init

Init ==
  /\ \/ /\ rootType \in RootTypes
        /\ reg \in Registries
     \/ /\ \E a \in AttrSeqs(MaxAttrLen), p \in PropSeqs :
             rootType = Ct(RVaried(a, p), "nil", "none")
        /\ reg \in { <<>>, [t \in {"w"} |-> Ct(TSpan, "nil", "none")] }
  /\ pc = "start"
  /\ vnodes = <<>>
  /\ vdom = 0
  /\ css = 0
  /\ err = "nil"
  /\ cur = 0
  /\ walkStack = <<>>
  /\ props = <<>>
  /\ cdom = 0
  /\ onodes = <<>>
  /\ ptrMap = <<>>
  /\ convStack = <<>>
  /\ outn = 0
  /\ sink = <<>>
  /\ ret = "none"
  /\ walkErr = "nil"
  /\ styleLog = <<>>
  /\ expanded = <<>>
  /\ allocs = <<>>

\* ------------------------------------------------------- Render: root build

\* vdom, css, err := c.Type.BuildVDOM(c.Data); if err != nil { return err }
BuildRoot ==
  /\ pc = "start"
  /\ IF rootType.fail = "build"
     THEN /\ err' = "rootbuild"
          /\ ret' = "rootbuild"
          /\ pc' = "done"
          /\ UNCHANGED << vnodes, vdom, css, cur, styleLog >>
     ELSE LET t == rootType.tree
              s == StyleTree(rootType.css)
          IN  /\ vnodes' = BuildNodes(t, 0) \o BuildNodes(s, Len(t))
              /\ vdom' = 1
              /\ css' = IF s = <<>> THEN 0 ELSE Len(t) + 1
              /\ cur' = 1
              /\ styleLog' = <<rootType.css>>
              /\ pc' = "walk"
              /\ UNCHANGED << err, ret >>
  /\ UNCHANGED allocs
  /\ UNCHANGED << reg, rootType, walkStack, props, cdom, onodes, ptrMap, convStack,
                  outn, sink, walkErr, expanded >>

\* ---------------------------------------------------- Render: expansion walk

\* element name must match a component
Matched(n) == vnodes[n].Type = "element" /\ vnodes[n].Data \in DOMAIN reg

RECURSIVE MergeStatic(_, _, _)
\* for _, a := range vgn.Attr { if _, ok := props[a.Key]; !ok { props[a.Key] = a.Val } }
MergeStatic(acc, attr, i) ==
  IF i > Len(attr) THEN acc
  ELSE MergeStatic(IF attr[i].Key \in PropKeys(acc) THEN acc
                   ELSE Append(acc, P(attr[i].Key, StrV(attr[i].Val))),
                   attr, i + 1)

\* A wrong merge: a static attribute replaces the property of its key.
InstPropsAttrWins(p, attr) ==
  LET kept == SelectSeq(p, LAMBDA e : \A i \in 1..Len(attr) : attr[i].Key # e.Key)
  IN  MergeStatic(kept, attr, 1)

\* Props.Clone: a copy, so that writing to it leaves vgn.Props alone.
Clone(p) == p

\* props := vgn.Props.Clone(), then the static attributes that do not conflict.
InstProps(p, attr) == MergeStatic(Clone(p), attr, 1)

RECURSIVE Reparent(_, _, _)
\* for cn := cdom.FirstChild; cn != nil; cn = cn.NextSibling { cn.Parent = vgn }
Reparent(nodes, cn, vgn) ==
  IF cn = 0 THEN nodes
  ELSE Reparent([nodes EXCEPT ![cn].Parent = vgn], nodes[cn].NextSibling, vgn)

\* *vgn = *cdom, keeping vgn.Parent, vgn.PrevSibling, vgn.NextSibling
Overwrite(nodes, vgn, c) ==
  [nodes EXCEPT ![vgn] = [nodes[c] EXCEPT !.Parent = nodes[vgn].Parent,
                                          !.PrevSibling = nodes[vgn].PrevSibling,
                                          !.NextSibling = nodes[vgn].NextSibling]]

\* A wrong splice: the children keep pointing at cdom.
SpliceNoReparent(nodes, vgn, c) == Overwrite(nodes, vgn, c)

\* A wrong splice: vgn keeps its own child pointers.
SpliceKeepChildren(nodes, vgn, c) ==
  LET n1 == Reparent(nodes, nodes[c].FirstChild, vgn)
  IN  [n1 EXCEPT ![vgn] = [n1[c] EXCEPT !.Parent = n1[vgn].Parent,
                                        !.PrevSibling = n1[vgn].PrevSibling,
                                        !.NextSibling = n1[vgn].NextSibling,
                                        !.FirstChild = n1[vgn].FirstChild,
                                        !.LastChild = n1[vgn].LastChild]]

\* make cdom replace vgn
Splice(nodes, vgn, c) == Overwrite(Reparent(nodes, nodes[c].FirstChild, vgn), vgn, c)

RECURSIVE Unwind(_, _)
\* Walk returning from the frames whose node has no NextSibling.
Unwind(nodes, stk) ==
  IF stk = <<>> THEN [cur |-> 0, stk |-> <<>>]
  ELSE IF nodes[Last(stk)].NextSibling # 0
       THEN [cur |-> nodes[Last(stk)].NextSibling, stk |-> Front(stk)]
       ELSE Unwind(nodes, Front(stk))

\* Walk after the callback returned nil for n: FirstChild, then NextSibling.
Advance(nodes, n, stk) ==
  IF nodes[n].FirstChild # 0
  THEN [cur |-> nodes[n].FirstChild, stk |-> Append(stk, n)]
  ELSE Unwind(nodes, Append(stk, n))

\* The callback on a node that is no element or matches no component.
WalkSkip ==
  /\ pc = "walk"
  /\ cur # 0
  /\ ~Matched(cur)
  /\ LET adv == Advance(vnodes, cur, walkStack)
     IN  /\ cur' = adv.cur
         /\ walkStack' = adv.stk
  /\ UNCHANGED allocs
  /\ UNCHANGED << reg, rootType, pc, vnodes, vdom, css, err, props, cdom, onodes, ptrMap,
                  convStack, outn, sink, ret, walkErr, styleLog, expanded >>

\* The callback on a matched node, up to New(ct, props).
WalkNew ==
  /\ pc = "walk"
  /\ cur # 0
  /\ Matched(cur)
  /\ Len(expanded) < MaxExpansions
  /\ props' = InstProps(vnodes[cur].Props, vnodes[cur].Attr)
  /\ expanded' = Append(expanded, [node |-> cur, tag |-> vnodes[cur].Data,
                                   attr |-> vnodes[cur].Attr, nprops |-> vnodes[cur].Props])
  /\ IF reg[vnodes[cur].Data].fail = "new"
     THEN /\ err' = "new"
          /\ walkErr' = "new"
          /\ pc' = "css"
     ELSE /\ pc' = "build"
          /\ UNCHANGED << err, walkErr >>
  /\ UNCHANGED allocs
  /\ UNCHANGED << reg, rootType, vnodes, vdom, css, cur, walkStack, cdom, onodes, ptrMap,
                  convStack, outn, sink, ret, styleLog >>

\* cdom, ccss, err := ct.BuildVDOM(compInst.Data), then css.AppendChild.
WalkBuild ==
  /\ pc = "build"
  /\ LET ct == reg[vnodes[cur].Data]
         base == Len(vnodes)
         s == StyleTree(ct.css)
         n1 == vnodes \o [i \in 1..Len(ct.tree) |-> BuildNodes(ct.tree, base)[i]]
                      \o [i \in 1..Len(s) |-> BuildNodes(s, base + Len(ct.tree))[i]]
         ccss == IF s = <<>> THEN 0 ELSE base + Len(ct.tree) + 1
     IN  IF ct.fail = "build"
         THEN /\ err' = "build"
              /\ walkErr' = "build"
              /\ pc' = "css"
              /\ UNCHANGED << vnodes, cdom, styleLog >>
         ELSE /\ cdom' = base + 1
              /\ styleLog' = Append(styleLog, ct.css)
              /\ UNCHANGED << err, walkErr >>
              /\ IF ccss # 0 /\ n1[ccss].FirstChild # 0
                 THEN IF css = 0
                      THEN /\ vnodes' = n1      \* nil receiver: AppendChild panics
                           /\ pc' = "panic"
                      ELSE /\ vnodes' = AppendChild(n1, css, n1[ccss].FirstChild)
                           /\ pc' = "splice"
                 ELSE /\ vnodes' = n1
                      /\ pc' = "splice"
  /\ UNCHANGED allocs
  /\ UNCHANGED << reg, rootType, vdom, css, cur, walkStack, props, onodes, ptrMap,
                  convStack, outn, sink, ret, expanded >>

\* The splice, and Walk going on into the node's new children.
WalkSplice ==
  /\ pc = "splice"
  /\ vnodes' = Splice(vnodes, cur, cdom)
  /\ LET adv == Advance(vnodes', cur, walkStack)
     IN  /\ cur' = adv.cur
         /\ walkStack' = adv.stk
  /\ pc' = "walk"
  /\ UNCHANGED allocs
  /\ UNCHANGED << reg, rootType, vdom, css, err, props, cdom, onodes, ptrMap, convStack,
                  outn, sink, ret, walkErr, styleLog, expanded >>

\* Walk returns nil: err = vdom.Walk(...)
WalkReturn ==
  /\ pc = "walk"
  /\ cur = 0
  /\ err' = "nil"
  /\ pc' = "css"
  /\ UNCHANGED allocs
  /\ UNCHANGED << reg, rootType, vnodes, vdom, css, cur, walkStack, props, cdom, onodes,
                  ptrMap, convStack, outn, sink, ret, walkErr, styleLog, expanded >>

\* ------------------------------------------------------ Render: style output

\* output css; ptrMap := make(map[*VGNode]*html.Node)
StyleOut ==
  /\ pc = "css"
  /\ IF css # 0 /\ vnodes[css].FirstChild # 0
     THEN \E ok \in BOOLEAN :
            IF ok
            THEN /\ sink' = Append(sink, [kind |-> "style",
                                          text |-> vnodes[vnodes[css].FirstChild].Data,
                                          root |-> 0])
                 /\ err' = "nil"
                 /\ pc' = "conv"
                 /\ UNCHANGED ret
            ELSE /\ err' = "write"
                 /\ ret' = "write"
                 /\ pc' = "done"
                 /\ UNCHANGED sink
     ELSE /\ pc' = "conv"
          /\ UNCHANGED << sink, err, ret >>
  /\ ptrMap' = [v \in 1..Len(vnodes) |-> 0]
  /\ UNCHANGED allocs
  /\ UNCHANGED << reg, rootType, vnodes, vdom, css, cur, walkStack, props, cdom, onodes,
                  convStack, outn, walkErr, styleLog, expanded >>

\* ------------------------------------------------------------ Render: conv

\* n := &html.Node{}
NewNode ==
  [Type |-> "", Data |-> "", Namespace |-> "", Attr |-> <<>>, Parent |-> 0,
   FirstChild |-> 0, LastChild |-> 0, PrevSibling |-> 0, NextSibling |-> 0]

\* A wrong order of the links: LastChild is converted from FirstChild.
LinkFirstForLast(node, stage) ==
  CASE stage = 1 -> node.Parent
    [] stage = 2 -> node.FirstChild
    [] stage = 3 -> node.FirstChild
    [] stage = 4 -> node.PrevSibling
    [] stage = 5 -> node.NextSibling

\* The pointer conv follows at each of its five recursive calls, in order.
Link(node, stage) ==
  CASE stage = 1 -> node.Parent
    [] stage = 2 -> node.FirstChild
    [] stage = 3 -> node.LastChild
    [] stage = 4 -> node.PrevSibling
    [] stage = 5 -> node.NextSibling

\* n.Parent, err = conv(...) and the four assignments after it.
SetLink(on, n, stage, val) ==
  CASE stage = 1 -> [on EXCEPT ![n].Parent = val]
    [] stage = 2 -> [on EXCEPT ![n].FirstChild = val]
    [] stage = 3 -> [on EXCEPT ![n].LastChild = val]
    [] stage = 4 -> [on EXCEPT ![n].PrevSibling = val]
    [] stage = 5 -> [on EXCEPT ![n].NextSibling = val]

\* A wrong conv: the node is not registered before its links are followed.
RegisterNever(pm, v, n) == pm

\* ptrMap[vgn] = n
Register(pm, v, n) == [pm EXCEPT ![v] = n]

\* A wrong loop body: the property is appended although its attribute exists.
MergePropAppendOnly(acc, k, v) ==
  Append(acc, [Namespace |-> "", Key |-> k, Val |-> Sprint(v)])

\* A wrong loop body: without the continue, the overwritten key is appended too.
MergePropNoContinue(acc, k, v) ==
  LET hits == {i \in 1..Len(acc) : acc[i].Key = k}
      a1 == IF hits # {} THEN [acc EXCEPT ![MinOr0(hits)].Val = Sprint(v)] ELSE acc
  IN  Append(a1, [Namespace |-> "", Key |-> k, Val |-> Sprint(v)])

\* One round of propAttrLoop: overwrite the first attribute of key k, or append.
MergeProp(acc, k, v) ==
  LET hits == {i \in 1..Len(acc) : acc[i].Key = k}
  IN  IF hits # {} THEN [acc EXCEPT ![MinOr0(hits)].Val = Sprint(v)]
      ELSE Append(acc, [Namespace |-> "", Key |-> k, Val |-> Sprint(v)])

RECURSIVE PropAttrLoop(_, _, _)
\* for _, k := range propKeys
PropAttrLoop(acc, p, j) ==
  IF j > Len(p) THEN acc
  ELSE PropAttrLoop(MergeProp(acc, OrderedKeys(p)[j], PropVal(p, OrderedKeys(p)[j])), p, j + 1)

\* n.Attr: the copy of vgn.Attr with the bound properties assigned as attrs.
ConvAttr(attr, p) ==
  PropAttrLoop([i \in 1..Len(attr) |->
                 [Namespace |-> attr[i].Namespace, Key |-> attr[i].Key, Val |-> attr[i].Val]],
               p, 1)

\* html.ParseFragment: whether it fails, and the nodes it returns.
ParseFails(inner) == inner = "<!bad"

ParseFragment(inner) ==
  IF inner = "<b>bold</b>" THEN << N("element", "b", 0), N("text", "bold", 1) >> ELSE <<>>

\* The html.Nodes of a parsed fragment, allocated at base+1 .. base+Len(tree).
FragmentNodes(tree, base) ==
  [i \in 1..Len(tree) |->
    [Type |-> tree[i].Type, Data |-> tree[i].Data, Namespace |-> tree[i].ns,
     Attr |-> tree[i].Attr,
     Parent |-> Off(base, tree[i].par),
     FirstChild |-> Off(base, MinOr0(Kids(tree, i))),
     LastChild |-> Off(base, MaxOr0(Kids(tree, i))),
     PrevSibling |-> Off(base, MaxOr0({j \in Sibs(tree, i) : j < i})),
     NextSibling |-> Off(base, MinOr0({j \in Sibs(tree, i) : j > i}))]]

\* html.Node.AppendChild
HtmlAppendChild(on, n, c) ==
  LET last == on[n].LastChild
      n1 == [on EXCEPT ![c].Parent = n, ![c].PrevSibling = last]
      n2 == IF last # 0 THEN [n1 EXCEPT ![last].NextSibling = c]
            ELSE [n1 EXCEPT ![n].FirstChild = c]
  IN  [n2 EXCEPT ![n].LastChild = c]

\* The argument of the conv call about to be made.
ConvTarget ==
  IF convStack = <<>> THEN vdom ELSE Link(vnodes[Last(convStack).v], Last(convStack).stage)

ConvCalling ==
  /\ pc = "conv"
  /\ IF convStack = <<>> THEN outn = 0 ELSE Last(convStack).stage <= 5

\* conv on a node not in ptrMap: allocate, register, start on its links.
ConvAlloc ==
  /\ ConvCalling
  /\ ConvTarget # 0
  /\ ptrMap[ConvTarget] = 0
  /\ Len(onodes) < MaxOut
  /\ onodes' = Append(onodes, NewNode)
  /\ ptrMap' = Register(ptrMap, ConvTarget, Len(onodes) + 1)
  /\ convStack' = Append(convStack, [v |-> ConvTarget, n |-> Len(onodes) + 1, stage |-> 1])
  /\ allocs' = Append(allocs, ConvTarget)
  /\ UNCHANGED << reg, rootType, pc, vnodes, vdom, css, err, cur, walkStack, props, cdom,
                  outn, sink, ret, walkErr, styleLog, expanded >>

\* conv on nil or on a node already in ptrMap: the caller assigns the result.
ConvMemo ==
  /\ ConvCalling
  /\ convStack # <<>>
  /\ IF ConvTarget = 0 THEN TRUE ELSE ptrMap[ConvTarget] # 0
  /\ LET top == Last(convStack)
         res == IF ConvTarget = 0 THEN 0 ELSE ptrMap[ConvTarget]
     IN  /\ onodes' = SetLink(onodes, top.n, top.stage, res)
         /\ convStack' = [convStack EXCEPT ![Len(convStack)].stage = top.stage + 1]
  /\ UNCHANGED allocs
  /\ UNCHANGED << reg, rootType, pc, vnodes, vdom, css, err, cur, walkStack, props, cdom,
                  ptrMap, outn, sink, ret, walkErr, styleLog, expanded >>

\* conv after its five links: type and attrs, properties, InnerHTML, return.
ConvFinish ==
  /\ pc = "conv"
  /\ convStack # <<>>
  /\ Last(convStack).stage = 6
  /\ LET top == Last(convStack)
         vgn == vnodes[top.v]
         on1 == [onodes EXCEPT ![top.n].Type = vgn.Type, ![top.n].Data = vgn.Data,
                               ![top.n].Namespace = vgn.Namespace,
                               ![top.n].Attr = ConvAttr(vgn.Attr, vgn.Props)]
         frag == ParseFragment(vgn.InnerHTML)
         on2 == IF vgn.InnerHTML # "" /\ frag # <<>>
                THEN HtmlAppendChild(on1 \o [i \in 1..Len(frag) |->
                                               FragmentNodes(frag, Len(on1))[i]],
                                     top.n, Len(on1) + 1)
                ELSE on1
         rest == Front(convStack)
     IN  IF vgn.InnerHTML # "" /\ ParseFails(vgn.InnerHTML)
         THEN /\ onodes' = on1
              /\ convStack' = <<>>
              /\ err' = "parse"
              /\ ret' = "parse"
              /\ pc' = "done"
              /\ UNCHANGED outn
         ELSE IF rest = <<>>
              THEN /\ onodes' = on2
                   /\ convStack' = rest
                   /\ outn' = top.n
                   /\ err' = "nil"
                   /\ pc' = "render"
                   /\ UNCHANGED ret
              ELSE /\ onodes' = SetLink(on2, Last(rest).n, Last(rest).stage, top.n)
                   /\ convStack' = [rest EXCEPT ![Len(rest)].stage = Last(rest).stage + 1]
                   /\ UNCHANGED << outn, err, ret, pc >>
  /\ UNCHANGED allocs
  /\ UNCHANGED << reg, rootType, vnodes, vdom, css, cur, walkStack, props, cdom, ptrMap,
                  sink, walkErr, styleLog, expanded >>

\* ------------------------------------------------------ Render: serialization

\* err = html.Render(out, outn); return
RenderTree ==
  /\ pc = "render"
  /\ \E ok \in BOOLEAN :
       IF ok
       THEN /\ sink' = Append(sink, [kind |-> "tree", text |-> "", root |-> outn])
            /\ err' = "nil"
            /\ ret' = "nil"
       ELSE /\ err' = "write"
            /\ ret' = "write"
            /\ UNCHANGED sink
  /\ pc' = "done"
  /\ UNCHANGED allocs
  /\ UNCHANGED << reg, rootType, vnodes, vdom, css, cur, walkStack, props, cdom, onodes,
                  ptrMap, convStack, outn, walkErr, styleLog, expanded >>

Next ==
  \/ BuildRoot
  \/ WalkSkip
  \/ WalkNew
  \/ WalkBuild
  \/ WalkSplice
  \/ WalkReturn
  \/ StyleOut
  \/ ConvAlloc
  \/ ConvMemo
  \/ ConvFinish
  \/ RenderTree

Spec == Init /\ [][Next]_vars

\* Render runs to its end without being suspended.
FairSpec == Spec /\ WF_vars(Next)

\* ------------------------------------------------------ graphs and their shape

LinksOf(node) ==
  {node.Parent, node.FirstChild, node.LastChild, node.PrevSibling, node.NextSibling} \ {0}

RECURSIVE Closure(_, _)
Closure(heap, S) ==
  LET T == S \cup UNION {LinksOf(heap[n]) : n \in S}
  IN  IF T = S THEN S ELSE Closure(heap, T)

\* The nodes reachable from root through any of the five links.
Reach(heap, root) == IF root = 0 THEN {} ELSE Closure(heap, {root})

RECURSIVE ChainFrom(_, _, _)
\* The nodes met from c along NextSibling, at most fuel of them.
ChainFrom(heap, c, fuel) ==
  IF c = 0 \/ fuel = 0 THEN <<>> ELSE <<c>> \o ChainFrom(heap, heap[c].NextSibling, fuel - 1)

ChildChain(heap, p) == ChainFrom(heap, heap[p].FirstChild, Len(heap) + 1)

RECURSIVE AncestorsOf(_, _, _)
AncestorsOf(heap, n, fuel) ==
  IF heap[n].Parent = 0 \/ fuel = 0 THEN {}
  ELSE {heap[n].Parent} \cup AncestorsOf(heap, heap[n].Parent, fuel - 1)

\* The tree reachable from root is well-formed: every child chain is a
\* consistent doubly-linked list of exactly the nodes whose Parent is that
\* node, and no node is its own ancestor.
WellFormed(heap, root) ==
  LET R == Reach(heap, root)
  IN  /\ heap[root].Parent = 0
      /\ heap[root].PrevSibling = 0
      /\ heap[root].NextSibling = 0
      /\ \A p \in R :
           LET ch == ChildChain(heap, p)
           IN  /\ Len(ch) <= Len(heap)
               /\ \A i, j \in 1..Len(ch) : ch[i] = ch[j] => i = j
               /\ {ch[i] : i \in 1..Len(ch)} = {n \in R : heap[n].Parent = p}
               /\ heap[p].LastChild = (IF ch = <<>> THEN 0 ELSE ch[Len(ch)])
               /\ \A i \in 1..Len(ch) :
                    heap[ch[i]].PrevSibling = (IF i = 1 THEN 0 ELSE ch[i - 1])
               /\ p \notin AncestorsOf(heap, p, Len(heap) + 1)

ElementTags(tree) == {tree[i].Data : i \in {j \in 1..Len(tree) : tree[j].Type = "element"}}

\* The registered tags a component's output holds, at any position.
TagSucc(t) == ElementTags(reg[t].tree) \cap DOMAIN reg

RECURSIVE TagClosure(_)
TagClosure(S) ==
  LET T == S \cup UNION {TagSucc(t) : t \in S}
  IN  IF T = S THEN S ELSE TagClosure(T)

\* Component t's output leads back to its own tag.
LeadsBack(t) == t \in TagClosure(TagSucc(t))

WalkCompleted == pc \in {"css", "conv", "render", "done"}

\* --------------------------------------------------------------------- claims

\* C1: if constructing the instance for a matched element, or that
\* component's builder, fails during the walk, Render returns that exact
\* error and nothing is written, converted or serialized after the failure.
C1_FailFast ==
  walkErr # "nil" =>
    /\ sink = <<>>
    /\ onodes = <<>>
    /\ pc = "done" => ret = walkErr

\* C2: when no component's output leads back to its own tag, the output tree
\* of a successful Render holds no element whose tag is a registry key,
\* the position of a replacement's root element included.
C2_FullyExpanded ==
  (pc = "done" /\ ret = "nil" /\ \A t \in DOMAIN reg : ~LeadsBack(t)) =>
    \A o \in Reach(onodes, outn) :
      ~(onodes[o].Type = "element" /\ onodes[o].Data \in DOMAIN reg)

NonEmptyFragments == SelectSeq(styleLog, LAMBDA f : f \notin {"nil", "empty"})

ExpectedStyle ==
  IF NonEmptyFragments = <<>> THEN <<>>
  ELSE << [kind |-> "style", text |-> NonEmptyFragments[1], root |-> 0] >>

\* C3: a Render that ends without returning an error has written at most one
\* style element and then the tree; the style element is there whenever the
\* root's or a matched component's fragment is non-empty, also when the root
\* produced no style node at all, and its text is the first non-empty fragment.
C3_StyleThenTree ==
  /\ (pc = "done" /\ ret = "nil") =>
       sink = ExpectedStyle \o << [kind |-> "tree", text |-> "", root |-> outn] >>
  /\ pc = "panic" =>
       /\ Len(sink) >= Len(ExpectedStyle)
       /\ \A i \in 1..Len(ExpectedStyle) : sink[i] = ExpectedStyle[i]

\* The direct children of the replacement root before the splice.
ChildrenOf(heap, c) == {n \in 1..Len(heap) : heap[n].Parent = c}

\* What one splice step changes and what it leaves alone.
SpliceFrame ==
  (pc = "splice" /\ pc' = "walk") =>
    LET kids == ChildrenOf(vnodes, cdom)
    IN  /\ Len(vnodes') = Len(vnodes)
        /\ vnodes'[cur].Parent = vnodes[cur].Parent
        /\ vnodes'[cur].PrevSibling = vnodes[cur].PrevSibling
        /\ vnodes'[cur].NextSibling = vnodes[cur].NextSibling
        /\ vnodes'[cur].Data = vnodes[cdom].Data
        /\ vnodes'[cur].FirstChild = vnodes[cdom].FirstChild
        /\ vnodes'[cur].LastChild = vnodes[cdom].LastChild
        /\ \A n \in kids : vnodes'[n] = [vnodes[n] EXCEPT !.Parent = cur]
        /\ \A n \in (1..Len(vnodes)) \ (kids \cup {cur}) : vnodes'[n] = vnodes[n]

\* C4: a splice leaves the matched node's Parent, PrevSibling and NextSibling
\* and every node outside the replacement subtree unchanged and makes the
\* matched node the Parent of the replacement root's children; the tree
\* reachable from the render root is well-formed after any number of splices.
C4_SpliceKeepsTree ==
  /\ [](vdom # 0 => WellFormed(vnodes, vdom))
  /\ [][SpliceFrame]_vars

\* Two splices have acted, one of them into a node that had children of its
\* own, and the spliced-in children point at the matched node.
C4_Witness ==
  /\ pc = "walk"
  /\ Len(expanded) >= 2
  /\ \A i \in 1..Len(expanded) :
       /\ vnodes[expanded[i].node].Data # expanded[i].tag
       /\ vnodes[expanded[i].node].FirstChild # 0
       /\ vnodes[vnodes[expanded[i].node].FirstChild].Parent = expanded[i].node
  /\ \E n \in 1..Len(vnodes) :
       /\ n \notin Reach(vnodes, vdom)
       /\ vnodes[n].Parent \in {expanded[i].node : i \in 1..Len(expanded)}

NoRawMarkup == \A v \in Reach(vnodes, vdom) : vnodes[v].InnerHTML = ""

OutOf(v) == IF v = 0 THEN 0 ELSE ptrMap[v]

\* C5: for a tree without raw markup conv allocates exactly one html.Node
\* for each VGNode reachable from the root, and the map is an isomorphism:
\* each of the five links of out(v) is out of that link of v, nil to nil,
\* with type, tag and namespace copied.
C5_ConvIsomorphism ==
  (outn # 0 /\ NoRawMarkup) =>
    LET R == Reach(vnodes, vdom)
    IN  /\ outn = ptrMap[vdom]
        /\ \A v \in 1..Len(vnodes) : (ptrMap[v] # 0) <=> (v \in R)
        /\ \A v, u \in R : ptrMap[v] = ptrMap[u] => v = u
        /\ Len(onodes) = Cardinality(R)
        /\ \A v \in R :
             /\ onodes[ptrMap[v]].Parent = OutOf(vnodes[v].Parent)
             /\ onodes[ptrMap[v]].FirstChild = OutOf(vnodes[v].FirstChild)
             /\ onodes[ptrMap[v]].LastChild = OutOf(vnodes[v].LastChild)
             /\ onodes[ptrMap[v]].PrevSibling = OutOf(vnodes[v].PrevSibling)
             /\ onodes[ptrMap[v]].NextSibling = OutOf(vnodes[v].NextSibling)
             /\ onodes[ptrMap[v]].Type = vnodes[v].Type
             /\ onodes[ptrMap[v]].Data = vnodes[v].Data
             /\ onodes[ptrMap[v]].Namespace = vnodes[v].Namespace

\* conv has finished on an expanded tree in which some node has two children
\* and some node a namespace.
C5_Witness ==
  /\ outn # 0
  /\ NoRawMarkup
  /\ Len(expanded) >= 2
  /\ \E v \in Reach(vnodes, vdom) :
       vnodes[v].FirstChild # 0 /\ vnodes[v].FirstChild # vnodes[v].LastChild
  /\ \E v \in Reach(vnodes, vdom) : vnodes[v].Namespace # ""

\* conv has returned for v: its html.Node carries its type and attributes.
Converted(v) ==
  /\ ptrMap # <<>>
  /\ ptrMap[v] # 0
  /\ \A i \in 1..Len(convStack) : convStack[i].v # v

AttrKeySet(attr) == {attr[i].Key : i \in 1..Len(attr)}

FirstWithKey(attr, k) == MinOr0({i \in 1..Len(attr) : attr[i].Key = k})

\* The merged list as C6 states it.
MergedAttrs(attr, p) ==
  LET over == [i \in 1..Len(attr) |->
                IF attr[i].Key \in PropKeys(p) /\ i = FirstWithKey(attr, attr[i].Key)
                THEN [Namespace |-> attr[i].Namespace, Key |-> attr[i].Key,
                      Val |-> Sprint(PropVal(p, attr[i].Key))]
                ELSE attr[i]]
      fresh == SelectSeq(OrderedKeys(p), LAMBDA k : k \notin AttrKeySet(attr))
  IN  over \o [j \in 1..Len(fresh) |->
                [Namespace |-> "", Key |-> fresh[j], Val |-> Sprint(PropVal(p, fresh[j]))]]

\* C6: the output attribute list is the node's attribute list with, for each
\* property key in property order, the (first) attribute of that key given
\* the stringified property value at its position, or a new attribute
\* appended at the end; the other attributes are as they were.
C6_AttrMerge ==
  \A v \in 1..Len(vnodes) :
    Converted(v) => onodes[ptrMap[v]].Attr = MergedAttrs(vnodes[v].Attr, vnodes[v].Props)

\* A converted node had two attributes and two properties, one property
\* overwriting an attribute and one appended.
C6_Witness ==
  \E v \in 1..Len(vnodes) :
    /\ Converted(v)
    /\ Len(vnodes[v].Attr) = 2
    /\ Len(vnodes[v].Props) = 2
    /\ Len(onodes[ptrMap[v]].Attr) = 3
    /\ onodes[ptrMap[v]].Attr # vnodes[v].Attr \o <<onodes[ptrMap[v]].Attr[3]>>

DistinctKeys(attr) == \A i, j \in 1..Len(attr) : attr[i].Key = attr[j].Key => i = j

\* C7 as stated: after the merge the attribute keys of every output node are
\* pairwise distinct, whatever the input node's static attributes.
C7_KeysDistinct ==
  \A v \in 1..Len(vnodes) : Converted(v) => DistinctKeys(onodes[ptrMap[v]].Attr)

\* C7 amended: after the merge the attribute keys of an output node are
\* pairwise distinct when the input node's static attribute keys are.
C7_KeysDistinctIfInputDistinct ==
  \A v \in 1..Len(vnodes) :
    (Converted(v) /\ DistinctKeys(vnodes[v].Attr)) => DistinctKeys(onodes[ptrMap[v]].Attr)

\* A converted node with two distinct static keys, one of them also a
\* property key.
C7_Witness ==
  \E v \in 1..Len(vnodes) :
    /\ Converted(v)
    /\ Len(vnodes[v].Attr) = 2
    /\ DistinctKeys(vnodes[v].Attr)
    /\ AttrKeySet(vnodes[v].Attr) \cap PropKeys(vnodes[v].Props) # {}
    /\ Len(onodes[ptrMap[v]].Attr) = 3

\* C8: the props handed to New hold every property of the matched node with
\* its value and each static attribute key that is no property key with the
\* value of the (first) attribute of that key, and nothing else; the node's
\* own properties and attributes stay as they were up to the splice.
C8_InstantiationProps ==
  pc \in {"build", "splice"} =>
    LET n == vnodes[cur]
        e == Last(expanded)
    IN  /\ e.node = cur
        /\ n.Attr = e.attr
        /\ n.Props = e.nprops
        /\ PropKeys(props) = PropKeys(n.Props) \cup AttrKeySet(n.Attr)
        /\ Len(props) = Cardinality(PropKeys(props))
        /\ \A k \in PropKeys(n.Props) : PropVal(props, k) = PropVal(n.Props, k)
        /\ \A k \in AttrKeySet(n.Attr) \ PropKeys(n.Props) :
             PropVal(props, k) = StrV(n.Attr[FirstWithKey(n.Attr, k)].Val)

\* A component was built for a node with a property and an attribute of the
\* same key and an attribute of another key.
C8_Witness ==
  /\ pc = "splice"
  /\ AttrKeySet(vnodes[cur].Attr) \cap PropKeys(vnodes[cur].Props) # {}
  /\ AttrKeySet(vnodes[cur].Attr) \ PropKeys(vnodes[cur].Props) # {}
  /\ Len(props) = 3

\* What holds of conv's bookkeeping at every step: no VGNode is allocated
\* for twice, every activation's node is in ptrMap with the html.Node the
\* activation allocated, and there are no more activations than VGNodes.
ConvOncePerNode ==
  /\ \A i, j \in 1..Len(allocs) : allocs[i] = allocs[j] => i = j
  /\ \A i \in 1..Len(convStack) : ptrMap[convStack[i].v] = convStack[i].n
  /\ Len(convStack) <= Len(vnodes)

\* C9: conv terminates although the graph has cycles through Parent and the
\* sibling back-references: a node is registered before its links are
\* followed, conv allocates at most once per node, and a later visit gets
\* the registered html.Node.
C9_ConvTerminates ==
  /\ []ConvOncePerNode
  /\ (pc = "conv") ~> (pc \in {"render", "done"})

\* conv is called on a node whose own activation is still running (a child
\* following its Parent link) and finds it in ptrMap.
C9_Witness ==
  /\ pc = "conv"
  /\ Len(convStack) >= 2
  /\ Last(convStack).stage <= 5
  /\ ConvTarget # 0
  /\ ptrMap[ConvTarget] # 0
  /\ \E i \in 1..Len(convStack) : convStack[i].v = ConvTarget

\* Component t builds, and its output holds t's own tag.
SelfAnywhere(t) == reg[t].fail = "none" /\ t \in ElementTags(reg[t].tree)

\* Component t builds, and its output holds t's own tag below its root.
SelfBelowRoot(t) ==
  /\ reg[t].fail = "none"
  /\ \E i \in 2..Len(reg[t].tree) :
       reg[t].tree[i].Type = "element" /\ reg[t].tree[i].Data = t

====
